---- MODULE Spec2Model ----
(***************************************************************************)
(* Model of functions/src/index.ts: three Cloud Functions that share a     *)
(* Firestore store.                                                        *)
(*   sendNotificationToUser  onCreate trigger, one push per new record     *)
(*   updateBadgeCount        onUpdate trigger, badge push on unread -> X   *)
(*   sendEventReminders      hourly timer, flags events and fans out       *)
(*                           reminder notification records                 *)
(* A step of a handler runs from the completion of one `await` (its        *)
(* result or its failure) to the next, so that the store reads and writes  *)
(* of one invocation interleave with the other invocations as they do in   *)
(* the deployed functions.  add() calls are writes in flight: each lands   *)
(* or fails on its own, whether or not the run that issued them is over.   *)
(***************************************************************************)
EXTENDS Integers, Sequences, FiniteSets, TLC

\* ------------------------------------------------------------------ bounds
\* The clock advances in whole hours, from 0 up to MaxHours hours.
MaxHours == 1
\* Documents created by producers other than sendEventReminders.
MaxCreates == 2
\* Document updates made by clients (each one fires updateBadgeCount).
MaxUpdates == 1
\* Records with metadata in one behaviour.
MaxPayloads == 1

\* ------------------------------------------------------- program constants
OneHourSeconds == 3600
TwoHoursSeconds == 7200
HalfHour == OneHourSeconds \div 2

\* A field that is absent from a document (JavaScript undefined).
Undefined == "undefined"
\* JavaScript truthiness of an optional string: undefined and "" are falsy.
Falsy(x) == x = Undefined \/ x = ""

USER_NOTIFICATIONS == "user_notifications"
CREATOR_NOTIFICATIONS == "creator_notifications"

Users == {"c1", "u1", "u2"}
EventIds == {"e1", "e2"}
\* Document ids of the events collection, in the store's id order.
EventRank(e) == IF e = "e1" THEN 1 ELSE 2

VARIABLES
  now,            \* wall clock, seconds (admin.firestore.Timestamp.now())
  fired,          \* the hourly schedule has fired for the current hour
  events,         \* collection "events": id -> EventData
  docs,           \* every other collection the triggers watch: id -> document
  nextId,         \* next auto-generated document id
  tokens,         \* collection "user_tokens": user -> token document
  runPc,          \* sendEventReminders: position of the running invocation
  runNow,         \* sendEventReminders: its `now`
  queried,        \* the events collection as it was when the run queried it
  eventsSnapshot, \* sendEventReminders: eventsSnapshot.docs
  batch,          \* sendEventReminders: writes queued on `batch`
  promises,       \* sendEventReminders: `promises`, the add() calls issued
  runResult,      \* what the last sendEventReminders invocation gave its caller
  runCaught,      \* the await whose error its catch block caught, if any
  notify,         \* sendNotificationToUser invocations: doc id -> invocation
  badge,          \* updateBadgeCount invocations, one per update, in update order
  creates         \* documents created so far by other producers
vars == <<now, fired, events, docs, nextId, tokens, runPc, runNow, queried,
          eventsSnapshot, batch, promises, runResult, runCaught, notify, badge, creates>>

storeVars == <<events, docs, nextId, tokens, creates>>
runVars == <<runPc, runNow, queried, eventsSnapshot, batch, promises, runResult,
            runCaught>>

\* Reading a property of a document: undefined when the field is absent.
Field(doc, name) == IF name \in DOMAIN doc THEN doc[name] ELSE Undefined

\* A fresh invocation of the onCreate handler, with the created snapshot.
Triggered(snapshot) ==
  [pc |-> "triggered", snapshot |-> snapshot, reads |-> 0, token |-> Undefined,
   calls |-> <<>>, caught |-> "none", result |-> "none"]

\* ------------------------------------------------------------ catch blocks
\* Variant: the catch block rethrows.
CaughtRethrow(fn) == "fault"
\* Each handler's catch block logs and returns null.
Caught(fn) == "null"

\* ------------------------------------------------------- sendEventReminders
oneHourLater(t) == t + OneHourSeconds
twoHoursLater(t) == t + TwoHoursSeconds

\* Variant: the window without its two ends.
InWindowOpen(startTime, t) ==
  startTime > oneHourLater(t) /\ startTime < twoHoursLater(t)
\* The two where() clauses of the events query.
InWindow(startTime, t) ==
  startTime >= oneHourLater(t) /\ startTime <= twoHoursLater(t)

\* A range query returns its documents ordered by the range field, then id.
QueryBefore(a, b) ==
  \/ events[a].startTime < events[b].startTime
  \/ events[a].startTime = events[b].startTime /\ EventRank(a) < EventRank(b)

RECURSIVE QueryOrder(_)
QueryOrder(S) ==
  IF S = {} THEN <<>>
  ELSE LET first == CHOOSE a \in S : \A b \in S \ {a} : QueryBefore(a, b)
       IN <<first>> \o QueryOrder(S \ {first})

\* eventsSnapshot.docs of the query run at time t.
EventsQuery(t) ==
  LET hit == {e \in EventIds : InWindow(events[e].startTime, t)}
      ord == QueryOrder(hit)
  IN [i \in 1..Len(ord) |-> [id |-> ord[i], data |-> events[ord[i]]]]

\* Variant: no event is skipped.
SkipNever(event) == FALSE
\* if (event.reminderSent) continue;
SkipEvent(event) == event.reminderSent

\* batch.update(eventDoc.ref, { reminderSent: true })
FlagUpdate(id) == [ref |-> id, field |-> "reminderSent", value |-> TRUE]

\* Metadata values keep their JavaScript type (typeof) beside the value.
Str(x) == [type |-> "string", val |-> x]
Num(x) == [type |-> "number", val |-> x]

\* Timestamp.toMillis()
toMillis(seconds) == seconds * 1000

ReminderMetadata(d) ==
  [eventId |-> Str(d.id), eventName |-> Str(d.data.name),
   startTime |-> Num(toMillis(d.data.startTime)),
   venueAddress |-> Str(d.data.venueAddress)]

\* Variant: the creator's record goes to user_notifications.
CreatorReminderSwapped(d, t) ==
  [coll |-> USER_NOTIFICATIONS,
   recipientId |-> d.data.creatorId,
   recipientType |-> "eventCreator",
   title |-> "Event Starting Soon",
   message |-> "Your \"" \o d.data.name \o "\" event starts in less than 2 hours.",
   type |-> "eventStartingSoon",
   status |-> "unread",
   createdAt |-> t,
   metadata |-> ReminderMetadata(d),
   actionLink |-> "event/" \o d.id]
\* The record added to creator_notifications for the event's creator.
CreatorReminder(d, t) ==
  [coll |-> CREATOR_NOTIFICATIONS,
   recipientId |-> d.data.creatorId,
   recipientType |-> "eventCreator",
   title |-> "Event Starting Soon",
   message |-> "Your \"" \o d.data.name \o "\" event starts in less than 2 hours.",
   type |-> "eventStartingSoon",
   status |-> "unread",
   createdAt |-> t,
   metadata |-> ReminderMetadata(d),
   actionLink |-> "event/" \o d.id]

\* The record added to user_notifications for one attendee.
AttendeeReminder(d, attendeeId, t) ==
  [coll |-> USER_NOTIFICATIONS,
   recipientId |-> attendeeId,
   recipientType |-> "user",
   title |-> "Event Starting Soon",
   message |-> "\"" \o d.data.name \o "\" starts in less than 2 hours.",
   type |-> "eventStartingSoon",
   status |-> "unread",
   createdAt |-> t,
   metadata |-> ReminderMetadata(d),
   actionLink |-> "event/" \o d.id]

\* Variant: the loop over the attendees is left out.
EventAddsCreatorOnly(d, t) ==
  IF ~Falsy(d.data.creatorId) THEN <<CreatorReminder(d, t)>> ELSE <<>>
\* The add() calls one pass of the loop body issues for event document d.
EventAdds(d, t) ==
  (IF ~Falsy(d.data.creatorId) THEN <<CreatorReminder(d, t)>> ELSE <<>>)
  \o [i \in 1..Len(d.data.attendees) |-> AttendeeReminder(d, d.data.attendees[i], t)]

\* The for loop over eventsSnapshot.docs: the writes queued on the batch.
RECURSIVE LoopBatch(_)
LoopBatch(snap) ==
  IF snap = <<>> THEN <<>>
  ELSE (IF SkipEvent(Head(snap).data) THEN <<>> ELSE <<FlagUpdate(Head(snap).id)>>)
       \o LoopBatch(Tail(snap))

\* The for loop over eventsSnapshot.docs: the add() calls pushed on promises.
RECURSIVE LoopAdds(_, _)
LoopAdds(snap, t) ==
  IF snap = <<>> THEN <<>>
  ELSE (IF SkipEvent(Head(snap).data) THEN <<>> ELSE EventAdds(Head(snap), t))
       \o LoopAdds(Tail(snap), t)

\* Variant: only the first queued write is applied.
CommitPartial(writes) ==
  [e \in EventIds |->
     IF writes # <<>> /\ writes[1].ref = e
     THEN [events[e] EXCEPT !.reminderSent = writes[1].value]
     ELSE events[e]]
\* Variant: the writes replace the documents (set() without merge).
CommitOverwrites(writes) ==
  [e \in EventIds |->
     IF \E i \in 1..Len(writes) : writes[i].ref = e
     THEN [creatorId |-> Undefined, name |-> Undefined, startTime |-> 0,
           venueAddress |-> Undefined, reminderSent |-> TRUE, attendees |-> <<>>]
     ELSE events[e]]
\* batch.commit(): every queued write is applied, in one atomic step.
CommitWrites(writes) ==
  [e \in EventIds |->
     IF \E i \in 1..Len(writes) : writes[i].ref = e
     THEN LET w == CHOOSE i \in 1..Len(writes) :
                     writes[i].ref = e /\ \A j \in 1..Len(writes) : writes[j].ref = e => j <= i
          IN [events[e] EXCEPT !.reminderSent = writes[w].value]
     ELSE events[e]]

Pending == {i \in 1..Len(promises) : promises[i].state = "pending"}
Rejected == {i \in 1..Len(promises) : promises[i].state = "rejected"}

\* The clock: one hour passes.  A run is over well within its hour (the
\* platform stops an invocation after minutes), and so are the writes it issued.
Tick ==
  /\ now < MaxHours * OneHourSeconds
  /\ runPc = "idle" /\ Pending = {}
  /\ now' = now + OneHourSeconds
  /\ fired' = FALSE
  /\ UNCHANGED <<storeVars, runVars, notify, badge>>

\* The schedule fires: now, the events query, and (no await in between) the
\* empty check and the whole for loop, up to the await of batch.commit().
RunStart ==
  /\ runPc = "idle" /\ ~fired
  /\ fired' = TRUE
  /\ runNow' = now
  /\ queried' = events
  /\ LET snap == EventsQuery(now)
         adds == LoopAdds(snap, now)
     IN /\ eventsSnapshot' = snap
        /\ IF snap = <<>>
           THEN /\ runPc' = "idle"
                /\ runResult' = "null"
                /\ runCaught' = "none"
                /\ batch' = <<>>
                /\ promises' = <<>>
                /\ nextId' = nextId
           ELSE /\ runPc' = "commit"
                /\ runResult' = "none"
                /\ runCaught' = "none"
                /\ batch' = LoopBatch(snap)
                /\ promises' = [i \in 1..Len(adds) |->
                                  [id |-> nextId + i - 1, doc |-> adds[i], state |-> "pending"]]
                /\ nextId' = nextId + Len(adds)
  /\ UNCHANGED <<now, events, docs, tokens, creates, notify, badge>>

\* The schedule fires and the events query fails.
RunQueryFails ==
  /\ runPc = "idle" /\ ~fired
  /\ fired' = TRUE
  /\ runNow' = now
  /\ queried' = events
  /\ eventsSnapshot' = <<>> /\ batch' = <<>> /\ promises' = <<>>
  /\ runPc' = "idle"
  /\ runCaught' = "query"
  /\ runResult' = Caught("sendEventReminders")
  /\ UNCHANGED <<now, storeVars, notify, badge>>

\* One add() of the run reaches the store: the document exists from now on
\* and the onCreate trigger fires for it.
AddLands(i) ==
  /\ i \in Pending
  /\ promises' = [promises EXCEPT ![i].state = "fulfilled"]
  /\ docs' = docs @@ (promises[i].id :> promises[i].doc)
  /\ notify' = notify @@ (promises[i].id :> Triggered(promises[i].doc))
  /\ UNCHANGED <<now, fired, events, nextId, tokens, creates, runPc, runNow, queried,
                 eventsSnapshot, batch, runResult, runCaught, badge>>

\* One add() of the run fails: nothing is written.
AddFails(i) ==
  /\ i \in Pending
  /\ promises' = [promises EXCEPT ![i].state = "rejected"]
  /\ UNCHANGED <<now, fired, storeVars, runPc, runNow, queried,
                 eventsSnapshot, batch, runResult, runCaught, notify, badge>>

\* await batch.commit() succeeds.
CommitOk ==
  /\ runPc = "commit"
  /\ events' = CommitWrites(batch)
  /\ runPc' = "join"
  /\ UNCHANGED <<now, fired, docs, nextId, tokens, creates, runNow, queried,
                 eventsSnapshot, batch, promises, runResult, runCaught, notify, badge>>

\* await batch.commit() throws: none of the queued writes is applied.
CommitFails ==
  /\ runPc = "commit"
  /\ runPc' = "idle"
  /\ runCaught' = "commit"
  /\ runResult' = Caught("sendEventReminders")
  /\ UNCHANGED <<now, fired, storeVars, runNow, queried,
                 eventsSnapshot, batch, promises, notify, badge>>

\* Variant: the join waits for the add() calls to settle (Promise.allSettled).
JoinResolvesSettled(ps) == \A i \in 1..Len(ps) : ps[i].state # "pending"
\* Promise.all(promises) resolves when every promise is fulfilled.
JoinResolves(ps) == \A i \in 1..Len(ps) : ps[i].state = "fulfilled"

\* await Promise.all(promises) resolves once every add() has succeeded.
JoinOk ==
  /\ runPc = "join"
  /\ JoinResolves(promises)
  /\ runPc' = "idle"
  /\ runResult' = "success"
  /\ UNCHANGED runCaught
  /\ UNCHANGED <<now, fired, storeVars, runNow, queried,
                 eventsSnapshot, batch, promises, notify, badge>>

\* await Promise.all(promises) rejects as soon as one add() has failed.
JoinFails ==
  /\ runPc = "join"
  /\ Rejected # {}
  /\ runPc' = "idle"
  /\ runCaught' = "add"
  /\ runResult' = Caught("sendEventReminders")
  /\ UNCHANGED <<now, fired, storeVars, runNow, queried,
                 eventsSnapshot, batch, promises, notify, badge>>

\* ------------------------------------------------------------ the triggers
\* Variant: every collection is handled.
IsAnyCollection(collection) == collection \in STRING
\* if (collection !== "user_notifications" && collection !== "creator_notifications")
IsNotificationCollection(collection) ==
  collection = USER_NOTIFICATIONS \/ collection = CREATOR_NOTIFICATIONS

\* Variant: the token is not tested for being empty.
HasTokenUnchecked(tokenDoc) == tokenDoc.exists
\* userTokensDoc.exists, then the truthiness of userData?.token
HasToken(tokenDoc) == tokenDoc.exists /\ ~Falsy(tokenDoc.token)

\* ---------------------------------------------------- sendNotificationToUser
\* String(v) for a primitive, JSON.stringify(v) for an object.
Stringify(v) ==
  IF v.type = "object" THEN "json:" \o v.val
  ELSE IF v.type = "number" THEN ToString(v.val)
  ELSE IF v.type = "boolean" THEN (IF v.val THEN "true" ELSE "false")
  ELSE v.val

\* Variant: only one of the two long fields is deleted.
StrippedOne == {"fullDescription"}
StrippedKeys == {"fullDescription", "fullContent"}

\* The data payload: the four fixed keys, then every kept metadata key
\* assigned over them.
MessageData(id, notification) ==
  LET base == [notificationId |-> ToString(id),
               type |-> IF Falsy(Field(notification, "type")) THEN ""
                        ELSE notification.type,
               click_action |-> "FLUTTER_NOTIFICATION_CLICK",
               actionLink |-> IF Falsy(Field(notification, "actionLink")) THEN ""
                              ELSE notification.actionLink]
      kept == IF "metadata" \in DOMAIN notification
              THEN DOMAIN notification.metadata \ StrippedKeys ELSE {}
      metadataToInclude == [k \in kept |-> notification.metadata[k]]
  IN [k \in DOMAIN base \cup kept |->
        IF k \in kept THEN Stringify(metadataToInclude[k]) ELSE base[k]]

\* The admin.messaging.Message handed to send().
NotificationMessage(id, notification, token) ==
  [notification |-> [title |-> Field(notification, "title"),
                     body |-> Field(notification, "message"),
                     imageUrl |-> Field(notification, "imageUrl")],
   data |-> MessageData(id, notification),
   token |-> token,
   android |-> [priority |-> "high",
                notification |-> [sound |-> "default", priority |-> "high",
                                  channelId |-> "high_importance_channel"]],
   apns |-> [payload |-> [aps |-> [sound |-> "default", badge |-> 1]]]]

\* The handler up to its first await, and the token lookup when it succeeds.
NotifyStart(id) ==
  /\ id \in DOMAIN notify /\ notify[id].pc = "triggered"
  /\ LET notification == notify[id].snapshot
         recipientId == Field(notification, "recipientId")
     IN IF ~IsNotificationCollection(notification.coll) \/ Falsy(recipientId)
        THEN notify' = [notify EXCEPT ![id].pc = "done", ![id].result = "null"]
        ELSE IF ~HasToken(tokens[recipientId])
        THEN notify' = [notify EXCEPT ![id].pc = "done", ![id].result = "null",
                                      ![id].reads = @ + 1]
        ELSE notify' = [notify EXCEPT ![id].pc = "send", ![id].reads = @ + 1,
                                      ![id].token = tokens[recipientId].token]
  /\ UNCHANGED <<now, fired, storeVars, runVars, badge>>

\* The token lookup throws.
NotifyReadFails(id) ==
  /\ id \in DOMAIN notify /\ notify[id].pc = "triggered"
  /\ IsNotificationCollection(notify[id].snapshot.coll)
  /\ ~Falsy(Field(notify[id].snapshot, "recipientId"))
  /\ notify' = [notify EXCEPT ![id].pc = "done", ![id].reads = @ + 1,
                              ![id].caught = "get",
                              ![id].result = Caught("sendNotificationToUser")]
  /\ UNCHANGED <<now, fired, storeVars, runVars, badge>>

\* await admin.messaging().send(message) returns the message id.
NotifySendOk(id) ==
  /\ id \in DOMAIN notify /\ notify[id].pc = "send"
  /\ notify' = [notify EXCEPT
       ![id].pc = "done",
       ![id].calls = Append(@, NotificationMessage(id, notify[id].snapshot, notify[id].token)),
       ![id].result = "response"]
  /\ UNCHANGED <<now, fired, storeVars, runVars, badge>>

\* await admin.messaging().send(message) throws.
NotifySendFails(id) ==
  /\ id \in DOMAIN notify /\ notify[id].pc = "send"
  /\ notify' = [notify EXCEPT
       ![id].pc = "done",
       ![id].calls = Append(@, NotificationMessage(id, notify[id].snapshot, notify[id].token)),
       ![id].caught = "send",
       ![id].result = Caught("sendNotificationToUser")]
  /\ UNCHANGED <<now, fired, storeVars, runVars, badge>>

\* ---------------------------------------------------------- updateBadgeCount
\* Variant: the query runs over both collections.
UnreadQueryAnyCollection(collection, recipientId) ==
  {i \in DOMAIN docs : /\ Field(docs[i], "recipientId") = recipientId
                       /\ Field(docs[i], "status") = "unread"}
\* The where("recipientId", "==", ...).where("status", "==", "unread") query
\* on collection(collection).
UnreadQuery(collection, recipientId) ==
  {i \in DOMAIN docs : /\ docs[i].coll = collection
                       /\ Field(docs[i], "recipientId") = recipientId
                       /\ Field(docs[i], "status") = "unread"}

\* Variant: any change of status counts.
StatusLeftAnything(beforeData, afterData) ==
  Field(beforeData, "status") # Field(afterData, "status")
\* if (beforeData.status === "unread" && afterData.status !== "unread")
StatusLeftUnread(beforeData, afterData) ==
  Field(beforeData, "status") = "unread" /\ Field(afterData, "status") # "unread"

\* The message of the badge push.
BadgeMessage(token, unreadCount) ==
  [token |-> token,
   apns |-> [payload |-> [aps |-> [badge |-> unreadCount]]],
   data |-> [updateBadge |-> "true"]]

\* A fresh invocation of the onUpdate handler, with change.before and change.after.
Changed(id, before, after) ==
  [pc |-> "triggered", id |-> id, before |-> before, after |-> after, reads |-> 0,
   unreadCount |-> 0, atQuery |-> <<>>, token |-> Undefined, calls |-> <<>>,
   caught |-> "none", result |-> "none"]

\* The handler up to its first await, and the unread query when it succeeds.
BadgeStart(k) ==
  /\ k \in DOMAIN badge /\ badge[k].pc = "triggered"
  /\ LET collection == badge[k].after.coll
         recipientId == Field(badge[k].after, "recipientId")
     IN IF \/ ~IsNotificationCollection(collection)
           \/ ~StatusLeftUnread(badge[k].before, badge[k].after)
           \/ Falsy(recipientId)
        THEN badge' = [badge EXCEPT ![k].pc = "done", ![k].result = "null"]
        ELSE badge' = [badge EXCEPT
               ![k].pc = "token", ![k].reads = @ + 1,
               ![k].unreadCount = Cardinality(UnreadQuery(collection, recipientId)),
               ![k].atQuery = docs]
  /\ UNCHANGED <<now, fired, storeVars, runVars, notify>>

\* The unread query throws.
BadgeQueryFails(k) ==
  /\ k \in DOMAIN badge /\ badge[k].pc = "triggered"
  /\ IsNotificationCollection(badge[k].after.coll)
  /\ StatusLeftUnread(badge[k].before, badge[k].after)
  /\ ~Falsy(Field(badge[k].after, "recipientId"))
  /\ badge' = [badge EXCEPT ![k].pc = "done", ![k].reads = @ + 1,
                            ![k].caught = "query",
                            ![k].result = Caught("updateBadgeCount")]
  /\ UNCHANGED <<now, fired, storeVars, runVars, notify>>

\* The token lookup returns.
BadgeToken(k) ==
  /\ k \in DOMAIN badge /\ badge[k].pc = "token"
  /\ LET recipientId == badge[k].after.recipientId
     IN IF ~HasToken(tokens[recipientId])
        THEN badge' = [badge EXCEPT ![k].pc = "done", ![k].reads = @ + 1,
                                    ![k].result = "null"]
        ELSE badge' = [badge EXCEPT ![k].pc = "send", ![k].reads = @ + 1,
                                    ![k].token = tokens[recipientId].token]
  /\ UNCHANGED <<now, fired, storeVars, runVars, notify>>

\* The token lookup throws.
BadgeTokenFails(k) ==
  /\ k \in DOMAIN badge /\ badge[k].pc = "token"
  /\ badge' = [badge EXCEPT ![k].pc = "done", ![k].reads = @ + 1,
                            ![k].caught = "get",
                            ![k].result = Caught("updateBadgeCount")]
  /\ UNCHANGED <<now, fired, storeVars, runVars, notify>>

\* await admin.messaging().send(...) returns.
BadgeSendOk(k) ==
  /\ k \in DOMAIN badge /\ badge[k].pc = "send"
  /\ badge' = [badge EXCEPT
       ![k].pc = "done",
       ![k].calls = Append(@, BadgeMessage(badge[k].token, badge[k].unreadCount)),
       ![k].result = "success"]
  /\ UNCHANGED <<now, fired, storeVars, runVars, notify>>

\* await admin.messaging().send(...) throws.
BadgeSendFails(k) ==
  /\ k \in DOMAIN badge /\ badge[k].pc = "send"
  /\ badge' = [badge EXCEPT
       ![k].pc = "done",
       ![k].calls = Append(@, BadgeMessage(badge[k].token, badge[k].unreadCount)),
       ![k].caught = "send",
       ![k].result = Caught("updateBadgeCount")]
  /\ UNCHANGED <<now, fired, storeVars, runVars, notify>>

\* ------------------------------------------------------------ the clients
\* What the store's other writers do: they create documents in the
\* collections the triggers watch and update the records' fields.
Collections == {USER_NOTIFICATIONS, CREATOR_NOTIFICATIONS, "venues"}
Statuses == {"unread", "read", "archived"}

\* The documents other producers create: for each of the recipients, for no
\* recipient, in each of the notification collections and outside them.
ProducedDocs ==
  {[coll |-> USER_NOTIFICATIONS, recipientId |-> r, title |-> "Hello",
    message |-> "New message", type |-> "chat", status |-> "unread"] : r \in Users}
  \cup {[coll |-> c, recipientId |-> "u1", title |-> "Hello",
         message |-> "New message", type |-> "chat", status |-> "unread"] :
          c \in {CREATOR_NOTIFICATIONS, "venues"}}
  \cup {[coll |-> USER_NOTIFICATIONS, title |-> "Hello",
         message |-> "New message", type |-> "chat", status |-> "unread"]}

\* A producer creates a document: the onCreate trigger fires for it.
CreateDoc(doc) ==
  /\ creates < MaxCreates
  /\ creates' = creates + 1
  /\ docs' = docs @@ (nextId :> doc)
  /\ notify' = notify @@ (nextId :> Triggered(doc))
  /\ nextId' = nextId + 1
  /\ UNCHANGED <<now, fired, events, tokens, runVars, badge>>

\* A client updates a document: its status, or (the status kept) its title.
\* The onUpdate trigger fires with the document before and after.
UpdateDoc(id, status) ==
  /\ id \in DOMAIN docs
  /\ Len(badge) < MaxUpdates
  /\ LET after == IF status = docs[id].status
                  THEN [docs[id] EXCEPT !.title = "Edited"]
                  ELSE [docs[id] EXCEPT !.status = status]
     IN /\ docs' = [docs EXCEPT ![id] = after]
        /\ badge' = Append(badge, Changed(id, docs[id], after))
  /\ UNCHANGED <<now, fired, events, nextId, tokens, creates, runVars, notify>>

\* ----------------------------------------------------------- initial state
StartTimes == {OneHourSeconds + HalfHour, TwoHoursSeconds}

\* e1 has a creator and two attendees; e2 has one target, of either kind.
InitEvents ==
  {ev \in [EventIds -> [creatorId : {Undefined, "c1"}, name : {"Launch", "Meetup"},
                        startTime : StartTimes, venueAddress : {"1 Main St"},
                        reminderSent : BOOLEAN,
                        attendees : {<<>>, <<"u1">>, <<"u1", "u2">>}]] :
     /\ ev["e1"].name = "Launch" /\ ev["e2"].name = "Meetup"
     /\ ev["e1"].creatorId = "c1" /\ ev["e1"].attendees = <<"u1", "u2">>
     /\ ~ev["e1"].reminderSent
     /\ \/ ev["e2"].creatorId = "c1" /\ ev["e2"].attendees = <<>>
        \/ ev["e2"].creatorId = Undefined /\ ev["e2"].attendees = <<"u1">>}

\* c1 has no token document, u1 has a token, u2 has a document with an empty token.
InitTokens ==
  [u \in Users |-> IF u = "u1" THEN [exists |-> TRUE, token |-> "token-u1"]
                   ELSE IF u = "u2" THEN [exists |-> TRUE, token |-> ""]
                   ELSE [exists |-> FALSE, token |-> Undefined]]

InitRest ==
  /\ now = 0
  /\ fired = FALSE
  /\ docs = <<>>
  /\ nextId = 1
  /\ tokens = InitTokens
  /\ runPc = "idle"
  /\ runNow = 0
  /\ queried = events
  /\ eventsSnapshot = <<>>
  /\ batch = <<>>
  /\ promises = <<>>
  /\ runResult = "none"
  /\ runCaught = "none"
  /\ notify = <<>>
  /\ badge = <<>>
  /\ creates = 0

\* One event on the boundary shared by the windows of two consecutive runs,
\* and one already flagged.
SystemEvents ==
  [e \in EventIds |->
     IF e = "e1"
     THEN [creatorId |-> Undefined, name |-> "Launch", startTime |-> TwoHoursSeconds,
           venueAddress |-> "1 Main St", reminderSent |-> FALSE, attendees |-> <<"u1">>]
     ELSE [creatorId |-> "c1", name |-> "Meetup", startTime |-> OneHourSeconds + HalfHour,
           venueAddress |-> "1 Main St", reminderSent |-> TRUE, attendees |-> <<>>]]

Init ==
  /\ events = SystemEvents
  /\ InitRest

InitReminders ==
  /\ events \in InitEvents
  /\ InitRest

\* A store that already holds a record its recipient has read.
InitBadges ==
  /\ events = SystemEvents
  /\ now = 0
  /\ fired = FALSE
  /\ docs = (1 :> [coll |-> USER_NOTIFICATIONS, recipientId |-> "u1", title |-> "Hello",
                   message |-> "New message", type |-> "chat", status |-> "read"])
  /\ nextId = 2
  /\ tokens = InitTokens
  /\ runPc = "idle"
  /\ runNow = 0
  /\ queried = events
  /\ eventsSnapshot = <<>>
  /\ batch = <<>>
  /\ promises = <<>>
  /\ runResult = "none"
  /\ runCaught = "none"
  /\ notify = <<>>
  /\ badge = <<>>
  /\ creates = 0

\* ---------------------------------------------------------- specifications
Reminders ==
  \/ Tick
  \/ RunStart
  \/ RunQueryFails
  \/ \E i \in 1..Len(promises) : AddLands(i)
  \/ \E i \in 1..Len(promises) : AddFails(i)
  \/ CommitOk
  \/ CommitFails
  \/ JoinOk
  \/ JoinFails

Dispatch ==
  \/ \E id \in DOMAIN notify : NotifyStart(id)
  \/ \E id \in DOMAIN notify : NotifyReadFails(id)
  \/ \E id \in DOMAIN notify : NotifySendOk(id)
  \/ \E id \in DOMAIN notify : NotifySendFails(id)

Badges ==
  \/ \E k \in DOMAIN badge : BadgeStart(k)
  \/ \E k \in DOMAIN badge : BadgeQueryFails(k)
  \/ \E k \in DOMAIN badge : BadgeToken(k)
  \/ \E k \in DOMAIN badge : BadgeTokenFails(k)
  \/ \E k \in DOMAIN badge : BadgeSendOk(k)
  \/ \E k \in DOMAIN badge : BadgeSendFails(k)

Creates == \E doc \in ProducedDocs : CreateDoc(doc)
Updates == \E id \in DOMAIN docs, status \in Statuses : UpdateDoc(id, status)

\* The timer and its reminders alone.
SpecReminders == InitReminders /\ [][Reminders]_vars

\* Record creations and the onCreate trigger alone.
SpecDispatch == Init /\ [][Creates \/ Dispatch]_vars

\* Record creations, updates and the onUpdate trigger alone.
SpecBadges == InitBadges /\ [][Creates \/ Updates \/ Badges]_vars

\* Metadata values of the other JavaScript types.
Obj(x) == [type |-> "object", val |-> x]
Bool(x) == [type |-> "boolean", val |-> x]

\* What a producer may put under each metadata key: a number, an object, a
\* boolean, the two long fields, and a key the payload also sets by itself.
MetadataValues ==
  [count |-> Num(3), venue |-> Obj("{x:1}"), seen |-> Bool(TRUE),
   fullDescription |-> Str("A long description"), fullContent |-> Obj("{body}"),
   notificationId |-> Str("spoofed")]

\* Records for the recipient that has a token: without metadata or with any
\* choice of those keys, with and without an actionLink.
PayloadDocs ==
  LET base == [coll |-> USER_NOTIFICATIONS, recipientId |-> "u1", title |-> "Hello",
               message |-> "New message", type |-> "chat", status |-> "unread"]
      metadatas == {[k \in K |-> MetadataValues[k]] : K \in SUBSET DOMAIN MetadataValues}
      links == {<<>>, [actionLink |-> "chat/42"]}
  IN {base @@ link : link \in links}
     \cup {base @@ link @@ [metadata |-> m] : link \in links, m \in metadatas}

\* A producer creates a record that carries metadata.
CreatePayload(doc) == Len(notify) < MaxPayloads /\ CreateDoc(doc)

\* Records with metadata and the onCreate trigger.
SpecPayload ==
  Init /\ [][(\E doc \in PayloadDocs : CreatePayload(doc)) \/ Dispatch]_vars

\* A producer has just created one document outside the notification
\* collections and one inside, both for the recipient that has a token: the
\* onCreate trigger has fired for each.
InitTriggers ==
  LET created == [i \in 1..2 |->
        [coll |-> IF i = 1 THEN "venues" ELSE USER_NOTIFICATIONS,
         recipientId |-> "u1", title |-> "Hello", message |-> "New message",
         type |-> "chat", status |-> "unread"]]
  IN /\ events = SystemEvents
     /\ now = 0
     /\ fired = FALSE
     /\ docs = created
     /\ nextId = 3
     /\ tokens = InitTokens
     /\ runPc = "idle"
     /\ runNow = 0
     /\ queried = events
     /\ eventsSnapshot = <<>>
     /\ batch = <<>>
     /\ promises = <<>>
     /\ runResult = "none"
     /\ runCaught = "none"
     /\ notify = [i \in 1..2 |-> Triggered(created[i])]
     /\ badge = <<>>
     /\ creates = 0

\* Both triggers, on the documents just created and on their updates.
SpecTriggers == InitTriggers /\ [][Updates \/ Dispatch \/ Badges]_vars

\* The recipient opens an unread record: its status becomes read, and the
\* onUpdate trigger fires with the record before and after.
MarkRead(id) ==
  /\ id \in DOMAIN docs
  /\ docs[id].status = "unread"
  /\ LET after == [docs[id] EXCEPT !.status = "read"]
     IN /\ docs' = [docs EXCEPT ![id] = after]
        /\ badge' = Append(badge, Changed(id, docs[id], after))
  /\ UNCHANGED <<now, fired, events, nextId, tokens, creates, runVars, notify>>

\* A store that holds two unread records of the recipient that has a token,
\* both in user_notifications.
InitUnread ==
  /\ events = SystemEvents
  /\ now = 0
  /\ fired = FALSE
  /\ docs = [i \in 1..2 |->
               [coll |-> USER_NOTIFICATIONS, recipientId |-> "u1", title |-> "Hello",
                message |-> "New message", type |-> "chat", status |-> "unread"]]
  /\ nextId = 3
  /\ tokens = InitTokens
  /\ runPc = "idle"
  /\ runNow = 0
  /\ queried = events
  /\ eventsSnapshot = <<>>
  /\ batch = <<>>
  /\ promises = <<>>
  /\ runResult = "none"
  /\ runCaught = "none"
  /\ notify = <<>>
  /\ badge = <<>>
  /\ creates = 0

\* The recipient reads its records while the onUpdate invocations run, with
\* no other write to the collection.
SpecConcurrentBadges ==
  InitUnread /\ [][(\E id \in DOMAIN docs : MarkRead(id)) \/ Badges]_vars

\* The timer's runs and the onCreate trigger on the records they write.
SpecPipeline == Init /\ [][Reminders \/ Dispatch]_vars

\* An hour passes after the schedule has fired for it.
HourlyTick == fired /\ Tick

\* Events that exist, unflagged, two hours or more before they start: on the
\* bound two consecutive windows share, inside a window, on the next bound.
InitHourly ==
  /\ events \in {ev \in [EventIds -> [creatorId : {Undefined, "c1"},
                                      name : {"Launch", "Meetup"},
                                      startTime : {TwoHoursSeconds,
                                                   TwoHoursSeconds + HalfHour,
                                                   TwoHoursSeconds + OneHourSeconds},
                                      venueAddress : {"1 Main St"},
                                      reminderSent : {FALSE},
                                      attendees : {<<>>, <<"u1">>, <<"u1", "u2">>}]] :
                   /\ ev["e1"].name = "Launch" /\ ev["e2"].name = "Meetup"
                   /\ ev["e1"].creatorId = "c1" /\ ev["e1"].attendees = <<"u1", "u2">>
                   /\ \/ ev["e2"].creatorId = "c1" /\ ev["e2"].attendees = <<>>
                      \/ ev["e2"].creatorId = Undefined /\ ev["e2"].attendees = <<"u1">>}
  /\ InitRest

\* The timer fires every hour, one run at a time, and nothing fails.
SpecHourly ==
  InitHourly /\ [][\/ HourlyTick
                   \/ RunStart
                   \/ \E i \in 1..Len(promises) : AddLands(i)
                   \/ CommitOk
                   \/ JoinOk]_vars

\* The three functions together, on the records the reminders produce.
Next == Reminders \/ Dispatch \/ Badges \/ Updates

Spec == Init /\ [][Next]_vars

\* ------------------------------------------------------------------ claims
\* A recipient is set and the store holds a non-empty token for it.
Deliverable(record) ==
  /\ "recipientId" \in DOMAIN record
  /\ record.recipientId \notin {Undefined, ""}
  /\ tokens[record.recipientId].exists
  /\ tokens[record.recipientId].token \notin {Undefined, ""}

\* C1 as stated: for every creation of a notification record the handler has
\* finished with, exactly one send call was made if the record's recipientId
\* is set and a non-empty token exists for it, and none otherwise.
C1_SendIffTokenExists ==
  \A id \in DOMAIN notify :
    (notify[id].pc = "done" /\ notify[id].snapshot.coll
        \in {USER_NOTIFICATIONS, CREATOR_NOTIFICATIONS})
    => Len(notify[id].calls) = (IF Deliverable(notify[id].snapshot) THEN 1 ELSE 0)

\* C1 amended: no invocation ever makes more than one send call, none makes
\* one before it is through the token lookup, and an invocation that has
\* finished made exactly one send call if recipientId is set, the token
\* lookup did not fail and found a non-empty token, and none otherwise.
C1_SendIffLookupFindsToken ==
  \A id \in DOMAIN notify :
    /\ Len(notify[id].calls) <= 1
    /\ notify[id].pc # "done" => notify[id].calls = <<>>
    /\ (notify[id].pc = "done" /\ notify[id].snapshot.coll
           \in {USER_NOTIFICATIONS, CREATOR_NOTIFICATIONS})
       => Len(notify[id].calls) =
            (IF Deliverable(notify[id].snapshot) /\ notify[id].caught # "get"
             THEN 1 ELSE 0)

\* One record has been pushed, to its recipient's token, and the handler is
\* through with another record without a send.
C1_Witness ==
  \E id, other \in DOMAIN notify :
    /\ notify[id].pc = "done" /\ Len(notify[id].calls) = 1
    /\ notify[id].calls[1].token = tokens[notify[id].snapshot.recipientId].token
    /\ notify[other].pc = "done" /\ notify[other].calls = <<>>
    /\ notify[other].snapshot.coll = USER_NOTIFICATIONS

\* The transition the badge handler looks for, read off the two snapshots.
LeftUnread(inv) ==
  /\ "status" \in DOMAIN inv.before /\ inv.before.status = "unread"
  /\ ~("status" \in DOMAIN inv.after /\ inv.after.status = "unread")

\* C2 as stated: for every update of a notification record the handler has
\* finished with, a badge push was sent if and only if the status went from
\* unread to something else.
C2_BadgeIffLeftUnread ==
  \A k \in DOMAIN badge :
    (badge[k].pc = "done" /\ badge[k].after.coll
        \in {USER_NOTIFICATIONS, CREATOR_NOTIFICATIONS})
    => (Len(badge[k].calls) >= 1 <=> LeftUnread(badge[k]))

\* C2 amended: a badge push is sent only for an update whose status went from
\* unread to something else; for such an update exactly one is sent when
\* recipientId is set, the unread query and the token lookup do not fail and
\* a non-empty token is found, and none otherwise.  No other update sends.
C2_BadgeOnlyIfLeftUnread ==
  \A k \in DOMAIN badge :
    /\ badge[k].pc # "done" => badge[k].calls = <<>>
    /\ (badge[k].pc = "done" /\ badge[k].after.coll
           \in {USER_NOTIFICATIONS, CREATOR_NOTIFICATIONS})
       => Len(badge[k].calls) =
            (IF /\ LeftUnread(badge[k])
                /\ Deliverable(badge[k].after)
                /\ badge[k].caught \notin {"query", "get"}
             THEN 1 ELSE 0)

\* A record that was read went back to unread (or to archived) and the
\* handler finished without a send.
C2_Witness ==
  \E k \in DOMAIN badge :
    /\ badge[k].pc = "done" /\ badge[k].calls = <<>>
    /\ badge[k].before.status = "read" /\ badge[k].after.status # "read"
    /\ Deliverable(badge[k].after)

\* The reminder records in the store for one target of one event.
ReminderRecords(e, collection, recipientId) ==
  {i \in DOMAIN docs :
     /\ docs[i].type = "eventStartingSoon"
     /\ docs[i].metadata.eventId.val = e
     /\ docs[i].coll = collection
     /\ docs[i].recipientId = recipientId}

\* C3: over any sequence of runs, the store never holds more than one
\* reminder record for a target (creator or attendee) of an event.
C3_AtMostOneReminderPerTarget ==
  \A e \in EventIds, u \in Users :
    /\ Cardinality(ReminderRecords(e, CREATOR_NOTIFICATIONS, u)) <= 1
    /\ Cardinality(ReminderRecords(e, USER_NOTIFICATIONS, u)) <= 1

\* The events the last run's query selected, and those of them it found unflagged.
Selected ==
  {e \in EventIds : /\ queried[e].startTime >= runNow + OneHourSeconds
                    /\ queried[e].startTime <= runNow + TwoHoursSeconds}
Unflagged == {e \in Selected : ~queried[e].reminderSent}
\* What the last run queued on its batch and which add() calls it issued, per event.
WritesFor(e) == {i \in 1..Len(batch) : batch[i].ref = e}
AddsFor(e) == {i \in 1..Len(promises) : promises[i].doc.metadata.eventId.val = e}
AddsTo(e, collection, recipientId) ==
  {i \in AddsFor(e) : /\ promises[i].doc.coll = collection
                      /\ promises[i].doc.recipientId = recipientId}
\* The last run got as far as its loop.
RanLoop == runCaught # "query" /\ Selected # {}

\* C4: a run creates no notification record and queues no flag write for an
\* event that was already flagged when its query selected it.
C4_FlaggedEventSkipped ==
  \A e \in Selected :
    (runCaught # "query" /\ queried[e].reminderSent)
    => WritesFor(e) = {} /\ AddsFor(e) = {}

\* A run that found a flagged event beside an unflagged one has succeeded.
C4_Witness ==
  /\ runPc = "idle" /\ runResult = "success"
  /\ \E e \in Selected : queried[e].reminderSent
  /\ promises # <<>>

\* C5: when a run at time T has completed without failure, every event it
\* found unflagged with startTime in [T+1h, T+2h] has exactly one flag update
\* (and is flagged), one record for its creator if it has one and one per
\* attendee, all of them in the store; every other event has no flag update
\* and no record of this run.
C5_SelectedEventReminded ==
  (runPc = "idle" /\ runResult = "success") =>
    \A e \in EventIds :
      IF e \in Unflagged
      THEN /\ Cardinality(WritesFor(e)) = 1
           /\ \A i \in WritesFor(e) : batch[i].field = "reminderSent" /\ batch[i].value = TRUE
           /\ events[e].reminderSent
           /\ queried[e].creatorId \notin {Undefined, ""}
                => Cardinality(AddsTo(e, CREATOR_NOTIFICATIONS, queried[e].creatorId)) = 1
           /\ \A j \in 1..Len(queried[e].attendees) :
                Cardinality(AddsTo(e, USER_NOTIFICATIONS, queried[e].attendees[j])) = 1
           /\ Cardinality(AddsFor(e)) =
                (IF queried[e].creatorId \in {Undefined, ""} THEN 0 ELSE 1)
                + Len(queried[e].attendees)
           /\ \A i \in AddsFor(e) :
                promises[i].id \in DOMAIN docs /\ docs[promises[i].id] = promises[i].doc
      ELSE WritesFor(e) = {} /\ AddsFor(e) = {}

\* A successful run has flagged the event with a creator and two attendees
\* and its three records are in the store, while the other event was outside
\* the run's window.
C5_Witness ==
  /\ runPc = "idle" /\ runResult = "success"
  /\ "e1" \in Unflagged /\ events["e1"].reminderSent
  /\ Cardinality({i \in AddsFor("e1") : promises[i].id \in DOMAIN docs}) = 3
  /\ "e2" \notin Selected

\* What a reminder record must look like, for the event its metadata names.
ReminderShape(r) ==
  LET e == r.metadata.eventId.val
  IN /\ e \in EventIds
     /\ r.status = "unread"
     /\ r.actionLink = "event/" \o e
     /\ \/ /\ r.recipientType = "eventCreator"
           /\ r.coll = CREATOR_NOTIFICATIONS
           /\ r.recipientId = events[e].creatorId
        \/ /\ r.recipientType = "user"
           /\ r.coll = USER_NOTIFICATIONS
           /\ \E j \in 1..Len(events[e].attendees) : r.recipientId = events[e].attendees[j]

\* C6: every reminder record an add() of a run carries, and every one in the
\* store, has status unread and actionLink event/<eventId>; the creator's
\* record goes to creator_notifications with recipientId = creatorId, an
\* attendee's record to user_notifications with that attendee as recipientId.
C6_ReminderRecordShape ==
  /\ \A i \in 1..Len(promises) : ReminderShape(promises[i].doc)
  /\ \A i \in DOMAIN docs : ReminderShape(docs[i])

\* The store holds the creator's record and an attendee's record of one event.
C6_Witness ==
  \E i, j \in DOMAIN docs :
    /\ docs[i].recipientType = "eventCreator" /\ docs[j].recipientType = "user"
    /\ docs[i].metadata.eventId = docs[j].metadata.eventId

\* C7: no step of any of the three functions clears a reminderSent flag that
\* is set, and a step that changes an event record changes nothing but its
\* reminderSent, to true.
C7_ReminderSentMonotonic ==
  [][\A e \in EventIds :
       /\ events[e].reminderSent => events'[e].reminderSent
       /\ events'[e] # events[e]
            => events'[e] = [events[e] EXCEPT !.reminderSent = TRUE]]_vars

\* The event that started unflagged is flagged, and the trigger handlers have
\* run on its records since.
C7_Witness ==
  /\ events["e1"].reminderSent
  /\ \E id \in DOMAIN notify : notify[id].pc = "done"
  /\ \E k \in DOMAIN badge : badge[k].pc = "done"

\* C8: whichever await fails, each of the three handlers ends with the null
\* of its catch block: no invocation ends with a fault.
C8_NoFaultEscapes ==
  /\ runResult \in {"none", "null", "success"}
  /\ runCaught # "none" => (runPc = "idle" /\ runResult = "null")
  /\ \A id \in DOMAIN notify :
       /\ notify[id].result \in {"none", "null", "response"}
       /\ notify[id].caught # "none" => (notify[id].pc = "done" /\ notify[id].result = "null")
  /\ \A k \in DOMAIN badge :
       /\ badge[k].result \in {"none", "null", "success"}
       /\ badge[k].caught # "none" => (badge[k].pc = "done" /\ badge[k].result = "null")

\* Each of the three handlers has caught a failure: the run its batch commit,
\* the create handler its send, the update handler its unread query.
C8_Witness ==
  /\ runCaught = "commit"
  /\ \E id \in DOMAIN notify : notify[id].caught = "send"
  /\ \E k \in DOMAIN badge : badge[k].caught = "query"

\* C9: the badge of every push of the update handler is the number of records
\* that, when its query ran, were in the updated record's collection with the
\* same recipientId and status unread.
C9_BadgeIsUnreadCountAtQuery ==
  \A k \in DOMAIN badge :
    \A c \in 1..Len(badge[k].calls) :
      badge[k].calls[c].apns.payload.aps.badge =
        Cardinality({i \in DOMAIN badge[k].atQuery :
                       /\ badge[k].atQuery[i].coll = badge[k].after.coll
                       /\ "recipientId" \in DOMAIN badge[k].atQuery[i]
                       /\ badge[k].atQuery[i].recipientId = badge[k].after.recipientId
                       /\ badge[k].atQuery[i].status = "unread"})

\* A badge of 1 was pushed while the recipient has records in the other
\* collection and records that are not unread.
C9_Witness ==
  \E k \in DOMAIN badge :
    /\ Len(badge[k].calls) = 1
    /\ badge[k].calls[1].apns.payload.aps.badge = 1
    /\ Cardinality({i \in DOMAIN badge[k].atQuery :
                      badge[k].atQuery[i].recipientId = badge[k].after.recipientId}) = 3

\* C10: the flags of one run are set all together or not at all: of the
\* events the run found unflagged either every one is flagged or none is, and
\* none is when the run's batch commit failed.
C10_FlagsAllOrNothing ==
  RanLoop =>
    /\ \/ \A e \in Unflagged : events[e].reminderSent
       \/ \A e \in Unflagged : ~events[e].reminderSent
    /\ runCaught = "commit" => \A e \in Unflagged : ~events[e].reminderSent

\* The batch commit of a run over two unflagged events failed: neither is
\* flagged, and a record the run issued is in the store.
C10_Witness ==
  /\ runCaught = "commit"
  /\ Cardinality(Unflagged) = 2
  /\ \A e \in Unflagged : ~events[e].reminderSent
  /\ \E i \in 1..Len(promises) :
       promises[i].state = "fulfilled" /\ promises[i].id \in DOMAIN docs

\* The runs that are over: those of the past hours and, once it has returned
\* and its writes have settled, the one of this hour.
RunsOver ==
  {T \in {h * OneHourSeconds : h \in 0..MaxHours} :
     T < now \/ (T = now /\ fired /\ runPc = "idle" /\ Pending = {})}

\* C11: with the timer firing every hour and no failure, an event that
\* existed unflagged two hours before it starts is flagged, and each of its
\* targets has exactly one reminder record, once a run whose window
\* [T+1h, T+2h] holds its startTime is over; and no target ever has more
\* than one.
C11_HourlyRemindedExactlyOnce ==
  \A e \in EventIds :
    LET targets(collection) ==
          {u \in Users : Cardinality(ReminderRecords(e, collection, u)) > 0}
    IN /\ \A u \in Users :
            /\ Cardinality(ReminderRecords(e, CREATOR_NOTIFICATIONS, u)) <= 1
            /\ Cardinality(ReminderRecords(e, USER_NOTIFICATIONS, u)) <= 1
       /\ (\E T \in RunsOver : /\ events[e].startTime >= T + OneHourSeconds
                               /\ events[e].startTime <= T + TwoHoursSeconds)
          => /\ events[e].reminderSent
             /\ targets(CREATOR_NOTIFICATIONS) =
                  (IF events[e].creatorId \in {Undefined, ""} THEN {}
                   ELSE {events[e].creatorId})
             /\ targets(USER_NOTIFICATIONS) =
                  {events[e].attendees[j] : j \in 1..Len(events[e].attendees)}

\* The second hourly run is over; the event on the bound the two windows
\* share was selected by both and has one record per target.
C11_Witness ==
  /\ now = OneHourSeconds /\ fired /\ runPc = "idle" /\ Pending = {}
  /\ events["e1"].startTime = TwoHoursSeconds
  /\ "e1" \in Selected /\ queried["e1"].reminderSent
  /\ Cardinality({i \in DOMAIN docs : docs[i].metadata.eventId.val = "e1"}) = 3

\* C12: an invocation of either trigger for a document outside
\* user_notifications and creator_notifications makes no store read and no
\* push send, and no step of sendNotificationToUser changes the store.
C12_OtherCollectionsIgnored ==
  [][/\ \A id \in DOMAIN notify' :
          notify'[id].snapshot.coll \notin {USER_NOTIFICATIONS, CREATOR_NOTIFICATIONS}
            => notify'[id].reads = 0 /\ notify'[id].calls = <<>>
     /\ \A k \in DOMAIN badge' :
          badge'[k].after.coll \notin {USER_NOTIFICATIONS, CREATOR_NOTIFICATIONS}
            => badge'[k].reads = 0 /\ badge'[k].calls = <<>>
     /\ (\E id \in DOMAIN notify : notify'[id] # notify[id])
          => UNCHANGED <<events, docs, tokens, nextId>>]_vars

\* Both triggers have returned for a document of the venues collection whose
\* recipient has a token, one for its creation and one for its leaving unread.
C12_Witness ==
  \E id \in DOMAIN notify, k \in DOMAIN badge :
    /\ notify[id].snapshot.coll = "venues" /\ notify[id].pc = "done"
    /\ HasToken(tokens[notify[id].snapshot.recipientId])
    /\ badge[k].id = id /\ badge[k].pc = "done"
    /\ StatusLeftUnread(badge[k].before, badge[k].after)

\* The string form of each metadata value a producer may set.
StringForms ==
  [count |-> "3", venue |-> "json:{x:1}", seen |-> "true",
   fullDescription |-> "A long description", fullContent |-> "json:{body}",
   notificationId |-> "spoofed"]

\* C13: the data payload of every push of sendNotificationToUser has no
\* fullDescription and no fullContent key, has every other metadata key of the
\* record with the string form of its value, and holds only strings.
C13_MetadataFlattened ==
  \A id \in DOMAIN notify :
    \A c \in 1..Len(notify[id].calls) :
      LET data == notify[id].calls[c].data
          metadata == IF "metadata" \in DOMAIN notify[id].snapshot
                      THEN notify[id].snapshot.metadata ELSE <<>>
      IN /\ "fullDescription" \notin DOMAIN data
         /\ "fullContent" \notin DOMAIN data
         /\ \A k \in DOMAIN metadata \ {"fullDescription", "fullContent"} :
              /\ k \in DOMAIN data
              /\ k \in DOMAIN StringForms => data[k] = StringForms[k]
         /\ \A k \in DOMAIN data : data[k] \in STRING

\* A push went out for a record whose metadata holds a number, an object, a
\* boolean and both long fields.
C13_Witness ==
  \E id \in DOMAIN notify :
    /\ notify[id].result = "response"
    /\ "metadata" \in DOMAIN notify[id].snapshot
    /\ {"count", "venue", "seen", "fullDescription", "fullContent"}
         \subseteq DOMAIN notify[id].snapshot.metadata
    /\ notify[id].calls[1].data.count = "3"

\* C14: the data payload of every push carries the record's own identifier
\* under notificationId, the record's type, the fixed click_action marker and
\* the record's actionLink (the empty string when unset), whatever the
\* metadata holds.
C14_RoutingKeysKept ==
  \A id \in DOMAIN notify :
    \A c \in 1..Len(notify[id].calls) :
      LET data == notify[id].calls[c].data
          record == notify[id].snapshot
      IN /\ data.notificationId = ToString(id)
         /\ data.type = record.type
         /\ data.click_action = "FLUTTER_NOTIFICATION_CLICK"
         /\ data.actionLink = (IF "actionLink" \in DOMAIN record
                               THEN record.actionLink ELSE "")

\* C15: when an add() of a run has failed and the run has returned after its
\* batch was committed, the run has returned null through its catch, every
\* event it flagged is still flagged, and every record whose add() succeeded
\* is in the store as it was written.
C15_AddFailureKeepsFlagsAndRecords ==
  (runPc = "idle" /\ runResult # "none" /\ runCaught \notin {"query", "commit"}
     /\ Rejected # {})
  => /\ runResult = "null" /\ runCaught = "add"
     /\ \A e \in Unflagged : events[e].reminderSent
     /\ \A i \in 1..Len(promises) :
          promises[i].state = "fulfilled"
            => promises[i].id \in DOMAIN docs /\ docs[promises[i].id] = promises[i].doc

\* A run over an event with three targets has returned after one add()
\* failed and another succeeded.
C15_Witness ==
  /\ runPc = "idle" /\ runCaught = "add" /\ runResult = "null"
  /\ "e1" \in Unflagged /\ events["e1"].reminderSent
  /\ \E i, j \in AddsFor("e1") :
       /\ promises[i].state = "rejected"
       /\ promises[j].state = "fulfilled" /\ promises[j].id \in DOMAIN docs

\* C16: when a run has returned {success: true}, every event on its batch is
\* flagged and the store holds a reminder record for the event's creator, if
\* it has one, and for each of its attendees; no add() is still in flight.
C16_SuccessMeansRecordsExist ==
  (runPc = "idle" /\ runResult = "success")
  => /\ Pending = {}
     /\ \A w \in 1..Len(batch) :
          LET e == batch[w].ref
          IN /\ events[e].reminderSent
             /\ ~Falsy(events[e].creatorId)
                  => ReminderRecords(e, CREATOR_NOTIFICATIONS, events[e].creatorId) # {}
             /\ \A j \in 1..Len(events[e].attendees) :
                  ReminderRecords(e, USER_NOTIFICATIONS, events[e].attendees[j]) # {}

\* A run that flagged two events has returned success.
C16_Witness ==
  /\ runPc = "idle" /\ runResult = "success"
  /\ Len(batch) = 2
  /\ \A e \in EventIds : events[e].reminderSent /\ ~queried[e].reminderSent

\* C17: when a badge push goes out and every updateBadgeCount invocation has
\* then completed, each with a push sent, that push, the most recently sent
\* one, carries the recipient's current unread count in the collection.
C17_LastPushHasLiveCount ==
  [][\A k \in DOMAIN badge :
       (/\ badge[k].pc = "send" /\ badge'[k].result = "success"
        /\ \A j \in DOMAIN badge' : badge'[j].pc = "done" /\ badge'[j].result = "success")
       => badge'[k].calls[1].apns.payload.aps.badge =
            Cardinality(UnreadQuery(badge[k].after.coll, badge[k].after.recipientId))]_vars

\* The targets of event e as the last run read them: collection and recipient.
TargetsOf(e) ==
  (IF Falsy(queried[e].creatorId) THEN {}
   ELSE {<<CREATOR_NOTIFICATIONS, queried[e].creatorId>>})
  \cup {<<USER_NOTIFICATIONS, queried[e].attendees[j]>> : j \in 1..Len(queried[e].attendees)}

\* C18 as stated: an event the run has flagged has a reminder record in the
\* store for each of its targets unless an add() of the run has failed.
C18_FlaggedHasRecordsUnlessFailed ==
  \A e \in Unflagged :
    (events[e].reminderSent /\ Rejected = {})
    => \A t \in TargetsOf(e) : ReminderRecords(e, t[1], t[2]) # {}

\* C18: for an event the run has flagged, the add() for each of its targets
\* was issued, and it has either put its record in the store, failed, or is
\* still in flight.
C18_FlaggedHasRecordsOrAddOutstanding ==
  \A e \in Unflagged :
    events[e].reminderSent
    => \A t \in TargetsOf(e) :
         \E i \in AddsTo(e, t[1], t[2]) :
           \/ promises[i].state \in {"pending", "rejected"}
           \/ promises[i].state = "fulfilled" /\ promises[i].id \in DOMAIN docs

\* While the batch commit is awaited a reminder record of the event is in the
\* store and its push has gone out, and the event is not flagged yet.
C18_Witness ==
  /\ runPc = "commit"
  /\ \E i \in 1..Len(promises) :
       /\ promises[i].state = "fulfilled" /\ promises[i].id \in DOMAIN docs
       /\ promises[i].id \in DOMAIN notify
       /\ notify[promises[i].id].result = "response"
       /\ ~events[promises[i].doc.metadata.eventId.val].reminderSent

\* C20: no reminder record ever has more than one send attempt; the step in
\* which a record's push fails leaves every notification record and every
\* event as it was and ends the invocation with null; and nothing is done
\* for that record afterwards.
C20_OnePushPerRecordNoRetry ==
  [][/\ \A id \in DOMAIN notify' :
          /\ id \in DOMAIN docs' /\ docs'[id].type = "eventStartingSoon"
          /\ Len(notify'[id].calls) <= 1
     /\ \A id \in DOMAIN notify :
          /\ (notify[id].pc = "send" /\ notify'[id].caught = "send")
               => /\ docs' = docs /\ events' = events
                  /\ notify'[id].pc = "done" /\ notify'[id].result = "null"
          /\ notify[id].caught = "send" => notify'[id] = notify[id]]_vars

\* The push for one reminder record has failed; the record is in the store,
\* one attempt was made for it, and the run that wrote it went on to succeed.
C20_Witness ==
  /\ runPc = "idle" /\ runResult = "success"
  /\ \E id \in DOMAIN notify :
       /\ notify[id].caught = "send" /\ Len(notify[id].calls) = 1
       /\ id \in DOMAIN docs /\ docs[id].type = "eventStartingSoon"

\* The run of this hour read its query and found no event to remind.
NothingToRemind == fired /\ runCaught # "query" /\ Unflagged = {}

\* C19: a run whose selection is empty or holds only flagged events issues no
\* add(), queues no write, and none of its steps changes an event or the
\* notification records; with an empty selection it has returned null at
\* once, without a commit.
C19_NothingSelectedNothingWritten ==
  [][NothingToRemind' =>
       /\ promises' = <<>> /\ batch' = <<>>
       /\ events' = queried'
       /\ Selected' = {} => (runPc' = "idle" /\ runResult' = "null" /\ runCaught' = "none")
       /\ NothingToRemind => (docs' = docs /\ events' = events)]_vars

\* A run that selected only a flagged event has gone through its commit and
\* its join and returned success.
C19_Witness ==
  /\ NothingToRemind /\ Selected # {}
  /\ runPc = "idle" /\ runResult = "success"
  /\ promises = <<>> /\ batch = <<>>
====
